---- MODULE Spec2Model ----
(***************************************************************************)
(* pytest-depper: the dependency analysis engine of                        *)
(* src/pytest_depper/analyzer.py (class DependencyAnalyzer).               *)
(*                                                                         *)
(* File paths, module names and symbol names are strings, handled          *)
(* character by character as the Python code handles them.  Python dicts   *)
(* are functions whose DOMAIN is the dict's set of keys.                   *)
(***************************************************************************)
EXTENDS Integers, Sequences, FiniteSets, TLC

\* ------------------------------------------------------------------ bounds
\* the number of import statements in a generated project tree
MaxImports == 2
\* the length of the changed_files list handed to get_affected_tests
MaxChanged == 2
\* the number of edges of a graph handed to the closure functions
MaxEdges == 4
\* the number of files in the changed_symbols map handed to get_affected_tests_by_symbols
MaxSymbolFiles == 2

\* ------------------------------------------------- str and pathlib helpers
\* Python: p in s
Contains(s, p) ==
    \E i \in 1..(Len(s) - Len(p) + 1) : SubSeq(s, i, i + Len(p) - 1) = p

\* Python: s.startswith(p)
StartsWith(s, p) == Len(p) <= Len(s) /\ SubSeq(s, 1, Len(p)) = p

\* Python: s.endswith(p)
EndsWith(s, p) == Len(p) <= Len(s) /\ SubSeq(s, Len(s) - Len(p) + 1, Len(s)) = p

\* the positions of s that hold the one-character string c
Positions(s, c) == {i \in 1..Len(s) : SubSeq(s, i, i) = c}

Min(S) == CHOOSE x \in S : \A y \in S : x <= y
Max(S) == CHOOSE x \in S : \A y \in S : x >= y

\* Python: s.split(c), c one character
RECURSIVE Split(_, _)
Split(s, c) ==
    IF Positions(s, c) = {} THEN <<s>>
    ELSE LET i == Min(Positions(s, c))
         IN <<SubSeq(s, 1, i - 1)>> \o Split(SubSeq(s, i + 1, Len(s)), c)

\* Python: c.join(parts)
RECURSIVE Join(_, _)
Join(parts, c) ==
    IF Len(parts) = 0 THEN ""
    ELSE IF Len(parts) = 1 THEN parts[1]
    ELSE parts[1] \o c \o Join(Tail(parts), c)

\* Python: s.replace(a, b), a and b one character each
RECURSIVE Replace(_, _, _)
Replace(s, a, b) ==
    IF Len(s) = 0 THEN ""
    ELSE (IF SubSeq(s, 1, 1) = a THEN b ELSE SubSeq(s, 1, 1))
         \o Replace(SubSeq(s, 2, Len(s)), a, b)

\* Python: s.lower(), over the upper-case letters the modelled names use
UpperLetters == <<"A", "B", "L", "M", "P", "Y">>
LowerLetters == <<"a", "b", "l", "m", "p", "y">>
LowerChar(c) ==
    IF \E i \in 1..Len(UpperLetters) : UpperLetters[i] = c
    THEN LowerLetters[CHOOSE i \in 1..Len(UpperLetters) : UpperLetters[i] = c]
    ELSE c
RECURSIVE Lower(_)
Lower(s) ==
    IF Len(s) = 0 THEN ""
    ELSE LowerChar(SubSeq(s, 1, 1)) \o Lower(SubSeq(s, 2, Len(s)))

\* pathlib: str(Path(p).parent) of a relative path; "." is the root itself
PathParent(p) ==
    IF Positions(p, "/") = {} THEN "."
    ELSE SubSeq(p, 1, Max(Positions(p, "/")) - 1)

\* pathlib: str(Path(d) / name)
PathJoin(d, name) == IF d = "." THEN name ELSE d \o "/" \o name

\* ------------------------------------------------------------ dict helpers
EmptyDict == [k \in {} |-> {}]

\* Python: d.get(k, set())
Get(d, k) == IF k \in DOMAIN d THEN d[k] ELSE {}

\* Python: d[k] = v
DictSet(d, k, v) == [x \in (DOMAIN d) \cup {k} |-> IF x = k THEN v ELSE d[x]]

\* Python: d[k].add(v) on a defaultdict(set)
DictAdd(d, k, v) == DictSet(d, k, Get(d, k) \cup {v})

\* ------------------------------------------------- configuration defaults
\* analyzer.py:78, the default test_patterns
test_patterns == {"test_", "_test.py", "/tests/", "/test/"}

\* analyzer.py:63-75, the default exclusion_patterns
exclusion_patterns ==
    {"venv", ".venv", "build", "dist", ".git", "__pycache__", ".pytest_cache",
     ".mypy_cache", ".ruff_cache", "node_modules", ".tox"}

\* the members of sys.stdlib_module_names that the modelled projects name
stdlib_module_names == {"os", "sys", "ast"}

\* the names of the distributions installed in the interpreter's environment
Distributions == {"pytest", "PyYAML"}

\* analyzer.py:88-97
_get_installed_packages == {Lower(name) : name \in Distributions}

\* ------------------------------------------------------- the project tree
\* An import statement of a source file, as the ast node the code visits:
\*   import a, b         -> [type |-> "Import", module |-> "", level |-> 0, names |-> {"a", "b"}]
\*   from .m import f, * -> [type |-> "ImportFrom", module |-> "m", level |-> 1, names |-> {"f", "*"}]
\* module = "" stands for node.module = None.
ImportNode(type, module, level, names) ==
    [type |-> type, module |-> module, level |-> level, names |-> names]

\* A file of the tree: ok = FALSE when open() or ast.parse() raises.
SourceFile(imports) == [ok |-> TRUE, imports |-> imports]
BrokenFile == [ok |-> FALSE, imports |-> {}]

VARIABLES
    fs,                  \* the file system: [root, exists, files: path -> file]
    pc,                  \* "new" before DependencyAnalyzer(...), then "built"
    project_root,        \* self.project_root
    dependency_graph,    \* self.dependency_graph
    reverse_graph,       \* self.reverse_graph
    module_to_tests,     \* self.module_to_tests
    _python_files,       \* self._python_files
    symbol_imports,      \* self.symbol_imports
    _installed_packages, \* self._installed_packages
    call,                \* the last public call: [op, arg, ret]
    walk                 \* one closure call, step by step (see Closure steps)

self == <<project_root, dependency_graph, reverse_graph, module_to_tests,
          _python_files, symbol_imports, _installed_packages>>
vars == <<fs, pc, self, call, walk>>

\* ------------------------------------------------------------- File Index
\* analyzer.py:99-105; str(py_file) carries the project root in front
_scan_project(tree) ==
    {rel \in (IF tree.exists THEN DOMAIN tree.files ELSE {}) :
        /\ EndsWith(rel, ".py")
        /\ ~ \E skip \in exclusion_patterns : Contains(PathJoin(tree.root, rel), skip)}

\* analyzer.py:317-326
_is_test_file(file_path) == \E pattern \in test_patterns : Contains(file_path, pattern)

\* -------------------------------------------------------- Import Resolver
\* _is_external_module asking the File Index first: a name a project file
\* begins with is never external
IsExternalProjectFirst(module_name, files, installed) ==
    IF \E f \in files : StartsWith(f, module_name) THEN FALSE
    ELSE TRUE

\* analyzer.py:277-299
_is_external_module(module_name, files, installed) ==
    IF module_name \in stdlib_module_names THEN TRUE
    ELSE IF Lower(module_name) \in installed THEN TRUE
    ELSE IF \E f \in files : StartsWith(f, module_name) THEN FALSE
    ELSE TRUE

\* ResolvePrefix without the module-file candidate: packages only
ResolvePrefixPackageOnly(parts, i, files) ==
    LET init_path == Join(SubSeq(parts, 1, i), "/") \o "/__init__.py"
        submodule_path == Join(SubSeq(parts, 1, i + 1), "/") \o ".py"
    IN  IF init_path \in files
        THEN {init_path}
             \cup (IF i < Len(parts) /\ submodule_path \in files
                   THEN {submodule_path} ELSE {})
        ELSE {}

\* analyzer.py:215-232, one turn of the loop over i
ResolvePrefix(parts, i, files) ==
    LET module_path == Join(SubSeq(parts, 1, i), "/") \o ".py"
        init_path == Join(SubSeq(parts, 1, i), "/") \o "/__init__.py"
        submodule_path == Join(SubSeq(parts, 1, i + 1), "/") \o ".py"
    IN  (IF module_path \in files THEN {module_path} ELSE {})
        \cup (IF init_path \in files
              THEN {init_path}
                   \cup (IF i < Len(parts) /\ submodule_path \in files
                         THEN {submodule_path} ELSE {})
              ELSE {})

\* _resolve_import stopping at the longest prefix that resolves
ResolveImportFirstMatch(module_name, from_file, files, installed) ==
    LET parts == Split(module_name, ".")
        hits == {i \in 1..Len(parts) : ResolvePrefix(parts, i, files) # {}}
    IN  IF _is_external_module(parts[1], files, installed) \/ hits = {} THEN {}
        ELSE ResolvePrefix(parts, Max(hits), files)

\* analyzer.py:197-234
_resolve_import(module_name, from_file, files, installed) ==
    LET parts == Split(module_name, ".")
    IN  IF _is_external_module(parts[1], files, installed) THEN {}
        ELSE UNION {ResolvePrefix(parts, i, files) : i \in 1..Len(parts)}

\* Ascend going up one directory more than asked
RECURSIVE AscendOneMore(_, _)
AscendOneMore(path, n) ==
    IF n < 0 THEN path ELSE AscendOneMore(PathParent(path), n - 1)

\* analyzer.py:250-254, from_file.parent and then level - 1 times .parent
RECURSIVE Ascend(_, _)
Ascend(path, n) == IF n <= 0 THEN path ELSE Ascend(PathParent(path), n - 1)

\* _resolve_relative_import returning the module file without looking it up
\* in the File Index
ResolveRelativeUnchecked(module_name, level, from_file, files) ==
    LET current_path == Ascend(PathParent(from_file), level - 1)
    IN  IF module_name # ""
        THEN {PathJoin(current_path, Replace(module_name, ".", "/")) \o ".py"}
        ELSE {PathJoin(current_path, "__init__.py")}

\* analyzer.py:236-275
_resolve_relative_import(module_name, level, from_file, files) ==
    LET current_path == Ascend(PathParent(from_file), level - 1)
    IN  IF module_name # ""
        THEN LET target_path == PathJoin(current_path, Replace(module_name, ".", "/"))
                 module_file == target_path \o ".py"
                 init_file == PathJoin(target_path, "__init__.py")
             IN  (IF module_file \in files THEN {module_file} ELSE {})
                 \cup (IF init_file \in files THEN {init_file} ELSE {})
        ELSE LET init_file == PathJoin(current_path, "__init__.py")
             IN  IF init_file \in files THEN {init_file} ELSE {}

\* ------------------------------------------------------- Import Extractor
\* analyzer.py:154-190, the files one import node resolves to
NodeDeps(node, file_path, files, installed) ==
    IF node.type = "Import"
    THEN UNION {_resolve_import(alias, file_path, files, installed) : alias \in node.names}
    ELSE IF node.module # ""
    THEN IF node.level > 0
         THEN _resolve_relative_import(node.module, node.level, file_path, files)
         ELSE _resolve_import(node.module, file_path, files, installed)
    ELSE IF node.level > 0
    THEN _resolve_relative_import("", node.level, file_path, files)
    ELSE {}

\* NodeSymbols recording nothing for `import X`
NodeSymbolsFromOnly(node, file_path, files, installed) ==
    IF node.type = "Import" THEN {}
    ELSE NodeDeps(node, file_path, files, installed) \X node.names

\* analyzer.py:159-161, 172-180, 185-190, the (dep, symbol) pairs one node adds
NodeSymbols(node, file_path, files, installed) ==
    IF node.type = "Import"
    THEN {<<dep, "*">> : dep \in NodeDeps(node, file_path, files, installed)}
    ELSE NodeDeps(node, file_path, files, installed) \X node.names

\* _extract_dependencies_and_symbols keeping what the text of a file that does
\* not parse imports
ExtractIgnoringFailure(file_path, tree, files, installed) ==
    LET nodes == tree.files[file_path].imports
        pairs == UNION {NodeSymbols(n, file_path, files, installed) : n \in nodes}
    IN  [dependencies |-> UNION {NodeDeps(n, file_path, files, installed) : n \in nodes},
         symbol_imports |-> [dep \in {p[1] : p \in pairs} |->
                                {p[2] : p \in {q \in pairs : q[1] = dep}}]]

\* analyzer.py:133-195; returns [dependencies, symbol_imports]
_extract_dependencies_and_symbols(file_path, tree, files, installed) ==
    LET file == tree.files[file_path]
        nodes == IF file.ok THEN file.imports ELSE {}
        pairs == UNION {NodeSymbols(n, file_path, files, installed) : n \in nodes}
    IN  [dependencies |-> UNION {NodeDeps(n, file_path, files, installed) : n \in nodes},
         symbol_imports |-> [dep \in {p[1] : p \in pairs} |->
                                {p[2] : p \in {q \in pairs : q[1] = dep}}]]

\* ----------------------------------------------- Dependency Graph Builder
\* analyzer.py:114-115, self.symbol_imports[py_file][source_file] = imported_symbols
StoreSymbols(si, py_file, symbols) ==
    IF DOMAIN symbols = {} THEN si
    ELSE LET old == IF py_file \in DOMAIN si THEN si[py_file] ELSE EmptyDict
         IN  DictSet(si, py_file,
                     [src \in (DOMAIN old) \cup (DOMAIN symbols) |->
                         IF src \in DOMAIN symbols THEN symbols[src] ELSE old[src]])

\* AddDependents with the edge stored the wrong way round:
\* self.reverse_graph[py_file].add(dep)
RECURSIVE AddDependentsSwapped(_, _, _)
AddDependentsSwapped(rg, dependencies, py_file) ==
    IF dependencies = {} THEN rg
    ELSE LET dep == CHOOSE d \in dependencies : TRUE
         IN  AddDependentsSwapped(DictAdd(rg, py_file, dep), dependencies \ {dep}, py_file)

\* AddDependents assigning where the code adds: the file processed last is
\* the only dependent a file keeps
RECURSIVE AddDependentsAssigning(_, _, _)
AddDependentsAssigning(rg, dependencies, py_file) ==
    IF dependencies = {} THEN rg
    ELSE LET dep == CHOOSE d \in dependencies : TRUE
         IN  AddDependentsAssigning(DictSet(rg, dep, {py_file}), dependencies \ {dep}, py_file)

\* analyzer.py:118-119, self.reverse_graph[dep].add(py_file) for dep in dependencies
RECURSIVE AddDependents(_, _, _)
AddDependents(rg, dependencies, py_file) ==
    IF dependencies = {} THEN rg
    ELSE LET dep == CHOOSE d \in dependencies : TRUE
         IN  AddDependents(DictAdd(rg, dep, py_file), dependencies \ {dep}, py_file)

\* analyzer.py:110-119, the body of the loop for one py_file
BuildFile(g, py_file, tree, files, installed) ==
    LET ex == _extract_dependencies_and_symbols(py_file, tree, files, installed)
    IN  [dependency_graph |-> DictSet(g.dependency_graph, py_file, ex.dependencies),
         symbol_imports |-> StoreSymbols(g.symbol_imports, py_file, ex.symbol_imports),
         reverse_graph |-> AddDependents(g.reverse_graph, ex.dependencies, py_file)]

\* analyzer.py:107-119; order is the iteration order of the set self._python_files
RECURSIVE _build_dependency_graph(_, _, _, _, _)
_build_dependency_graph(g, order, tree, files, installed) ==
    IF Len(order) = 0 THEN g
    ELSE _build_dependency_graph(BuildFile(g, Head(order), tree, files, installed),
                                 Tail(order), tree, files, installed)

\* ---------------------------------------------- Transitive Closure Engine
\* Both closure functions return [ret, visited]: the returned set and the
\* visited set as the call leaves it (Python shares one mutable set).
RECURSIVE _get_all_dependencies(_, _, _)
RECURSIVE DependenciesLoop(_, _, _, _)
\* analyzer.py:352-353, for dep in direct_deps: all_deps.update(recursive call)
DependenciesLoop(graph, todo, visited, all_deps) ==
    IF todo = {} THEN [ret |-> all_deps, visited |-> visited]
    ELSE LET dep == CHOOSE d \in todo : TRUE
             sub == _get_all_dependencies(graph, dep, visited)
         IN  DependenciesLoop(graph, todo \ {dep}, sub.visited, all_deps \cup sub.ret)

\* analyzer.py:328-355
_get_all_dependencies(graph, file_path, visited) ==
    IF file_path \in visited THEN [ret |-> {}, visited |-> visited]
    ELSE LET direct_deps == Get(graph, file_path)
         IN  DependenciesLoop(graph, direct_deps, visited \cup {file_path}, direct_deps)

RECURSIVE _get_all_dependents(_, _, _)
RECURSIVE DependentsLoop(_, _, _, _)
\* analyzer.py:381-382
DependentsLoop(graph, todo, visited, all_dependents) ==
    IF todo = {} THEN [ret |-> all_dependents, visited |-> visited]
    ELSE LET dep == CHOOSE d \in todo : TRUE
             sub == _get_all_dependents(graph, dep, visited)
         IN  DependentsLoop(graph, todo \ {dep}, sub.visited, all_dependents \cup sub.ret)

\* _get_all_dependents without the recursion: the direct dependents only
DirectDependentsOnly(graph, file_path, visited) ==
    [ret |-> Get(graph, file_path), visited |-> visited \cup {file_path}]

\* analyzer.py:357-384
_get_all_dependents(graph, file_path, visited) ==
    IF file_path \in visited THEN [ret |-> {}, visited |-> visited]
    ELSE LET direct_dependents == Get(graph, file_path)
         IN  DependentsLoop(graph, direct_dependents, visited \cup {file_path},
                            direct_dependents)

\* MapDeps keyed the wrong way round: module_to_tests[test_file].add(dep)
RECURSIVE MapDepsSwapped(_, _, _)
MapDepsSwapped(m2t, all_deps, test_file) ==
    IF all_deps = {} THEN m2t
    ELSE LET dep == CHOOSE d \in all_deps : TRUE
             next == IF ~ _is_test_file(dep) THEN DictAdd(m2t, test_file, dep) ELSE m2t
         IN  MapDepsSwapped(next, all_deps \ {dep}, test_file)

\* MapDeps without the check that dep is not a test file
RECURSIVE MapDepsUnfiltered(_, _, _)
MapDepsUnfiltered(m2t, all_deps, test_file) ==
    IF all_deps = {} THEN m2t
    ELSE LET dep == CHOOSE d \in all_deps : TRUE
         IN  MapDepsUnfiltered(DictAdd(m2t, dep, test_file), all_deps \ {dep}, test_file)

\* analyzer.py:313-315, for dep in all_deps: module_to_tests[dep].add(test_file)
RECURSIVE MapDeps(_, _, _)
MapDeps(m2t, all_deps, test_file) ==
    IF all_deps = {} THEN m2t
    ELSE LET dep == CHOOSE d \in all_deps : TRUE
             next == IF ~ _is_test_file(dep) THEN DictAdd(m2t, dep, test_file) ELSE m2t
         IN  MapDeps(next, all_deps \ {dep}, test_file)

\* analyzer.py:309-315, the loop over test_files
RECURSIVE MapTests(_, _, _)
MapTests(m2t, test_files, graph) ==
    IF test_files = {} THEN m2t
    ELSE LET test_file == CHOOSE t \in test_files : TRUE
             all_deps == _get_all_dependencies(graph, test_file, {}).ret
         IN  MapTests(MapDeps(m2t, all_deps, test_file), test_files \ {test_file}, graph)

\* analyzer.py:301-315
_map_tests_to_modules(files, graph) ==
    MapTests(EmptyDict, {f \in files : _is_test_file(f)}, graph)

\* ------------------------------------------------------------ Test Selector
\* AffectedByFile without the filter for test files on the dependents
AffectedByFileUnfiltered(affected_tests, changed_file, rg, m2t) ==
    LET own == IF _is_test_file(changed_file) THEN {changed_file} ELSE {}
        all_dependents == _get_all_dependents(rg, changed_file, {}).ret
        mapped == IF changed_file \in DOMAIN m2t THEN m2t[changed_file] ELSE {}
    IN  affected_tests \cup own \cup all_dependents \cup mapped

\* analyzer.py:406-420, the body of the loop for one changed_file
AffectedByFile(affected_tests, changed_file, rg, m2t) ==
    LET own == IF _is_test_file(changed_file) THEN {changed_file} ELSE {}
        all_dependents == _get_all_dependents(rg, changed_file, {}).ret
        test_dependents == {f \in all_dependents : _is_test_file(f)}
        mapped == IF changed_file \in DOMAIN m2t THEN m2t[changed_file] ELSE {}
    IN  affected_tests \cup own \cup test_dependents \cup mapped

\* AffectedLoop assigning where the code updates: each changed file's tests
\* replace the ones found so far
RECURSIVE AffectedLoopAssigning(_, _, _, _, _)
AffectedLoopAssigning(affected_tests, changed_files, i, rg, m2t) ==
    IF i > Len(changed_files) THEN affected_tests
    ELSE AffectedLoopAssigning(AffectedByFile({}, changed_files[i], rg, m2t),
                               changed_files, i + 1, rg, m2t)

\* analyzer.py:404-422, over the list from position i on
RECURSIVE AffectedLoop(_, _, _, _, _)
AffectedLoop(affected_tests, changed_files, i, rg, m2t) ==
    IF i > Len(changed_files) THEN affected_tests
    ELSE AffectedLoop(AffectedByFile(affected_tests, changed_files[i], rg, m2t),
                      changed_files, i + 1, rg, m2t)

\* analyzer.py:386-422
get_affected_tests(changed_files, rg, m2t) == AffectedLoop({}, changed_files, 1, rg, m2t)

\* SymbolsByTest selecting every test that imports from the changed file,
\* whatever names it imports
SymbolsByTestAnyName(st, test_file, changed_file, changed_symbol_names) ==
    IF ~ _is_test_file(test_file) THEN st
    ELSE LET si == IF test_file \in DOMAIN st.symbol_imports THEN st.symbol_imports
                   ELSE DictSet(st.symbol_imports, test_file, EmptyDict)
             hit == changed_file \in DOMAIN si[test_file]
         IN  [affected_tests |-> IF hit THEN st.affected_tests \cup {test_file}
                                 ELSE st.affected_tests,
              symbol_imports |-> si]

\* SymbolsByTest without the '*' branch
SymbolsByTestNoWildcard(st, test_file, changed_file, changed_symbol_names) ==
    IF ~ _is_test_file(test_file) THEN st
    ELSE LET si == IF test_file \in DOMAIN st.symbol_imports THEN st.symbol_imports
                   ELSE DictSet(st.symbol_imports, test_file, EmptyDict)
             imported == si[test_file]
             hit == /\ changed_file \in DOMAIN imported
                    /\ imported[changed_file] \cap changed_symbol_names # {}
         IN  [affected_tests |-> IF hit THEN st.affected_tests \cup {test_file}
                                 ELSE st.affected_tests,
              symbol_imports |-> si]

\* SymbolsByTest without the check that test_file is a test
SymbolsByTestAnyFile(st, test_file, changed_file, changed_symbol_names) ==
    LET si == IF test_file \in DOMAIN st.symbol_imports THEN st.symbol_imports
              ELSE DictSet(st.symbol_imports, test_file, EmptyDict)
        imported == si[test_file]
        hit == /\ changed_file \in DOMAIN imported
               /\ \/ "*" \in imported[changed_file]
                  \/ imported[changed_file] \cap changed_symbol_names # {}
    IN  [affected_tests |-> IF hit THEN st.affected_tests \cup {test_file}
                            ELSE st.affected_tests,
         symbol_imports |-> si]

\* analyzer.py:448-461, the body of the inner loop for one test_file; reading
\* self.symbol_imports[test_file] on the defaultdict inserts an empty entry
\* when the test file has none
SymbolsByTest(st, test_file, changed_file, changed_symbol_names) ==
    IF ~ _is_test_file(test_file) THEN st
    ELSE LET si == IF test_file \in DOMAIN st.symbol_imports THEN st.symbol_imports
                   ELSE DictSet(st.symbol_imports, test_file, EmptyDict)
             imported == si[test_file]
             hit == /\ changed_file \in DOMAIN imported
                    /\ \/ "*" \in imported[changed_file]
                       \/ imported[changed_file] \cap changed_symbol_names # {}
         IN  [affected_tests |-> IF hit THEN st.affected_tests \cup {test_file}
                                 ELSE st.affected_tests,
              symbol_imports |-> si]

\* analyzer.py:447-461, for test_file in self._python_files
RECURSIVE SymbolsFilesLoop(_, _, _, _)
SymbolsFilesLoop(st, todo, changed_file, changed_symbol_names) ==
    IF todo = {} THEN st
    ELSE LET test_file == CHOOSE t \in todo : TRUE
         IN  SymbolsFilesLoop(SymbolsByTest(st, test_file, changed_file, changed_symbol_names),
                              todo \ {test_file}, changed_file, changed_symbol_names)

\* analyzer.py:445-461, for changed_file, changed_symbol_names in changed_symbols.items()
RECURSIVE SymbolsLoop(_, _, _, _)
SymbolsLoop(st, todo, changed_symbols, files) ==
    IF todo = {} THEN st
    ELSE LET changed_file == CHOOSE c \in todo : TRUE
         IN  SymbolsLoop(SymbolsFilesLoop(st, files, changed_file, changed_symbols[changed_file]),
                         todo \ {changed_file}, changed_symbols, files)

\* analyzer.py:424-463; returns [affected_tests, symbol_imports]: the returned
\* set and self.symbol_imports as the call leaves it
get_affected_tests_by_symbols(changed_symbols, files, si) ==
    SymbolsLoop([affected_tests |-> {}, symbol_imports |-> si],
                DOMAIN changed_symbols, changed_symbols, files)

\* ------------------------------------------------------ the modelled trees
Universe == {"a.py", "b.py", "test_b.py"}

\* the import statements a generated file may hold
Statements ==
    {ImportNode("ImportFrom", "a", 0, {"f"}),       \* from a import f
     ImportNode("Import", "", 0, {"a"}),            \* import a
     ImportNode("ImportFrom", "b", 0, {"f"}),       \* from b import f
     ImportNode("Import", "", 0, {"test_b"}),       \* import test_b
     ImportNode("Import", "", 0, {"os"})}           \* import os

Tree(root, files) == [root |-> root, exists |-> TRUE, files |-> files]

\* every tree over Universe holding at most MaxImports import statements
GeneratedTrees ==
    {Tree(".", [f \in Universe |-> SourceFile({p[2] : p \in {q \in P : q[1] = f}})]) :
        P \in {Q \in SUBSET (Universe \X Statements) : Cardinality(Q) <= MaxImports}}

\* test_x.py does `from calc import add, subtract`
CalcTree ==
    Tree(".", [f \in {"calc.py", "test_x.py"} |->
                 IF f = "test_x.py"
                 THEN SourceFile({ImportNode("ImportFrom", "calc", 0, {"add", "subtract"})})
                 ELSE SourceFile({})])

\* a.py defines f, b.py does `from a import f`, test_b.py does `from b import f`
ChainTree ==
    Tree(".", [f \in Universe |->
                 IF f = "b.py" THEN SourceFile({ImportNode("ImportFrom", "a", 0, {"f"})})
                 ELSE IF f = "test_b.py"
                 THEN SourceFile({ImportNode("ImportFrom", "b", 0, {"f"})})
                 ELSE SourceFile({})])

\* test_a.py does `from a import f`, test_b.py does `from test_a import f`
HelperTree ==
    Tree(".", [f \in {"a.py", "test_a.py", "test_b.py"} |->
                 IF f = "test_a.py" THEN SourceFile({ImportNode("ImportFrom", "a", 0, {"f"})})
                 ELSE IF f = "test_b.py"
                 THEN SourceFile({ImportNode("ImportFrom", "test_a", 0, {"f"})})
                 ELSE SourceFile({})])

\* test_x.py does `from calc import *` and `from calc import add`
StarTree ==
    Tree(".", [f \in {"calc.py", "test_x.py"} |->
                 IF f = "test_x.py"
                 THEN SourceFile({ImportNode("ImportFrom", "calc", 0, {"*"}),
                                  ImportNode("ImportFrom", "calc", 0, {"add"})})
                 ELSE SourceFile({})])

Trees == GeneratedTrees \cup {CalcTree, ChainTree, HelperTree, StarTree}

\* the iteration orders of a set
Orders(S) ==
    {order \in [1..Cardinality(S) -> S] :
        \A i, j \in 1..Cardinality(S) : i # j => order[i] # order[j]}

\* the lists of at most n elements of S
Lists(S, n) == UNION {[1..k -> S] : k \in 0..n}

\* changed_files inputs: files of the tree and a deleted test file
ChangedFilesInputs(tree) == Lists((DOMAIN tree.files) \cup {"test_gone.py"}, MaxChanged)

\* the names the tree's from-imports bind, and one no file imports
SymbolNames(tree) ==
    LET nodes == UNION {tree.files[f].imports : f \in DOMAIN tree.files}
    IN  (UNION {n.names : n \in {m \in nodes : m.type = "ImportFrom"}} \ {"*"})
        \cup {"multiply"}

\* changed_symbols inputs: at most MaxSymbolFiles files, each with changed names
ChangedSymbolsInputs(tree) ==
    UNION {[K -> (SUBSET SymbolNames(tree)) \ {{}}] :
              K \in {L \in SUBSET (DOMAIN tree.files) : Cardinality(L) <= MaxSymbolFiles}}

NoCall == [op |-> "none", arg |-> <<>>, ret |-> {}]
NoWalk == [pc |-> "idle"]

\* ------------------------------------------------------------------ actions
\* analyzer.py:51-60, the fields before the build
Init ==
    /\ fs \in Trees
    /\ pc = "new"
    /\ project_root = fs.root
    /\ dependency_graph = EmptyDict
    /\ reverse_graph = EmptyDict
    /\ module_to_tests = EmptyDict
    /\ _python_files = {}
    /\ symbol_imports = EmptyDict
    /\ _installed_packages = {}
    /\ call = NoCall
    /\ walk = NoWalk

\* analyzer.py:38-86, DependencyAnalyzer(project_root)
Construct ==
    /\ pc = "new"
    /\ LET installed == _get_installed_packages
           files == _scan_project(fs)
       IN  \E order \in Orders(files) :
             LET g == _build_dependency_graph(
                          [dependency_graph |-> EmptyDict, symbol_imports |-> EmptyDict,
                           reverse_graph |-> EmptyDict],
                          order, fs, files, installed)
             IN  /\ _installed_packages' = installed
                 /\ _python_files' = files
                 /\ dependency_graph' = g.dependency_graph
                 /\ symbol_imports' = g.symbol_imports
                 /\ reverse_graph' = g.reverse_graph
                 /\ module_to_tests' = _map_tests_to_modules(files, g.dependency_graph)
    /\ pc' = "built"
    /\ UNCHANGED <<fs, project_root, call, walk>>

\* analyzer.py:386-422
GetAffectedTests ==
    /\ pc = "built"
    /\ call = NoCall
    /\ \E changed_files \in ChangedFilesInputs(fs) :
          call' = [op |-> "get_affected_tests", arg |-> changed_files,
                   ret |-> get_affected_tests(changed_files, reverse_graph, module_to_tests)]
    /\ UNCHANGED <<fs, pc, self, walk>>

\* analyzer.py:424-463
GetAffectedTestsBySymbols ==
    /\ pc = "built"
    /\ call = NoCall
    /\ \E changed_symbols \in ChangedSymbolsInputs(fs) :
          LET r == get_affected_tests_by_symbols(changed_symbols, _python_files, symbol_imports)
          IN  /\ call' = [op |-> "get_affected_tests_by_symbols", arg |-> changed_symbols,
                          ret |-> r.affected_tests]
              /\ symbol_imports' = r.symbol_imports
    /\ UNCHANGED <<fs, pc, project_root, dependency_graph, reverse_graph, module_to_tests,
                   _python_files, _installed_packages, walk>>

\* the caller takes the returned set and goes on to its next call
Return ==
    /\ call # NoCall
    /\ call' = NoCall
    /\ UNCHANGED <<fs, pc, self, walk>>

Next ==
    \/ Construct
    \/ GetAffectedTests
    \/ GetAffectedTestsBySymbols
    \/ Return

Spec == Init /\ [][Next]_vars

\* ----------------------------------------------------------- Closure steps
\* One call of _get_all_dependencies or _get_all_dependents, a step at a time:
\* walk.stack is the Python call stack, one frame per call that passed the
\* visited check, holding the callee's file_path, the elements of direct_deps
\* its for loop has still to take (todo) and its all_deps so far; walk.visited
\* is the one visited set all the calls share; walk.expanded counts, per file,
\* the calls that passed the visited check.
ClosureNodes == {"a.py", "b.py", "c.py", "test_b.py"}

\* a file no graph knows
Stranger == "d.py"

\* the forward graph with edge set E: every file of the index has a key
ForwardOf(E) == [n \in ClosureNodes |-> {m \in ClosureNodes : <<n, m>> \in E}]

\* the reverse graph with edge set E: only files with a dependent have a key
ReverseOf(E) ==
    [m \in {q[2] : q \in E} |-> {n \in ClosureNodes : <<n, m>> \in E}]

ClosureFunctions == {"_get_all_dependencies", "_get_all_dependents"}

\* the graph the running closure function reads
WalkGraph == IF walk.fn = "_get_all_dependencies" THEN dependency_graph ELSE reverse_graph

Frame(file_path, direct) == [file_path |-> file_path, todo |-> direct, all_deps |-> direct]

\* a built session over ClosureNodes whose graphs hold any at most MaxEdges edges
InitClosure ==
    /\ \E E \in {F \in SUBSET (ClosureNodes \X ClosureNodes) : Cardinality(F) <= MaxEdges} :
          /\ dependency_graph = ForwardOf(E)
          /\ reverse_graph = ReverseOf(E)
    /\ fs = Tree(".", [f \in ClosureNodes |-> SourceFile({})])
    /\ pc = "built"
    /\ project_root = "."
    /\ module_to_tests = EmptyDict
    /\ _python_files = ClosureNodes
    /\ symbol_imports = EmptyDict
    /\ _installed_packages = _get_installed_packages
    /\ call = NoCall
    /\ walk = NoWalk

\* analyzer.py:338-349 and 367-378, the outermost call: visited is None
WalkCall ==
    /\ walk.pc = "idle"
    /\ \E fn \in ClosureFunctions, start \in ClosureNodes \cup {Stranger} :
          LET graph == IF fn = "_get_all_dependencies" THEN dependency_graph
                       ELSE reverse_graph
          IN  walk' = [pc |-> "running", fn |-> fn, start |-> start,
                       stack |-> <<Frame(start, Get(graph, start))>>,
                       visited |-> {start},
                       expanded |-> [n \in ClosureNodes \cup {Stranger} |->
                                        IF n = start THEN 1 ELSE 0],
                       ret |-> {}]
    /\ UNCHANGED <<fs, pc, self, call>>

\* EnterCall without the visited check
EnterCallUnchecked(w, dep, graph) ==
    LET top == w.stack[Len(w.stack)]
        rest == [w.stack EXCEPT ![Len(w.stack)].todo = top.todo \ {dep}]
    IN  [w EXCEPT !.stack = Append(rest, Frame(dep, Get(graph, dep))),
                  !.visited = w.visited \cup {dep},
                  !.expanded[dep] = w.expanded[dep] + 1]

\* the callee's side of a recursive call, analyzer.py:341-349 and 370-378:
\* the walk after the call on dep has run up to its own for loop, or has
\* returned set() at the visited check
EnterCall(w, dep, graph) ==
    LET top == w.stack[Len(w.stack)]
        rest == [w.stack EXCEPT ![Len(w.stack)].todo = top.todo \ {dep}]
    IN  IF dep \in w.visited
        THEN [w EXCEPT !.stack = rest]
        ELSE [w EXCEPT !.stack = Append(rest, Frame(dep, Get(graph, dep))),
                       !.visited = w.visited \cup {dep},
                       !.expanded[dep] = w.expanded[dep] + 1]

\* analyzer.py:352-353 and 381-382, the for loop takes its next element
WalkRecurse ==
    /\ walk.pc = "running"
    /\ \E dep \in walk.stack[Len(walk.stack)].todo :
          walk' = EnterCall(walk, dep, WalkGraph)
    /\ UNCHANGED <<fs, pc, self, call>>

\* LeaveCall with the callee's result dropped by the caller
LeaveCallDropping(w) ==
    LET n == Len(w.stack)
        top == w.stack[n]
    IN  IF n = 1
        THEN [w EXCEPT !.pc = "done", !.stack = <<>>, !.ret = top.all_deps]
        ELSE [w EXCEPT !.stack = SubSeq(w.stack, 1, n - 1)]

\* analyzer.py:355 and 384, return all_deps into the caller's all_deps.update
LeaveCall(w) ==
    LET n == Len(w.stack)
        top == w.stack[n]
    IN  IF n = 1
        THEN [w EXCEPT !.pc = "done", !.stack = <<>>, !.ret = top.all_deps]
        ELSE [w EXCEPT !.stack = [SubSeq(w.stack, 1, n - 1) EXCEPT
                                     ![n - 1].all_deps = @ \cup top.all_deps]]

WalkReturn ==
    /\ walk.pc = "running"
    /\ walk.stack[Len(walk.stack)].todo = {}
    /\ walk' = LeaveCall(walk)
    /\ UNCHANGED <<fs, pc, self, call>>

NextClosure ==
    \/ WalkCall
    \/ WalkRecurse
    \/ WalkReturn

SpecClosure == InitClosure /\ [][NextClosure]_vars

\* a Python call that can take a step takes it
FairSpecClosure == SpecClosure /\ WF_vars(NextClosure)

\* ------------------------------------------------- builds of package trees
\* Trees with directories, with a file that shadows a stdlib module, with a
\* file that does not parse, and a missing root.
BuildUniverse == {"os.py", "pkg/impl.py", "tests/test_impl.py"}

BuildStatements ==
    {ImportNode("Import", "", 0, {"os"}),                \* import os
     ImportNode("Import", "", 0, {"PyYAML"}),            \* import PyYAML
     ImportNode("ImportFrom", "pkg.impl", 0, {"f"}),     \* from pkg.impl import f
     ImportNode("ImportFrom", "pkg.impl", 2, {"f"}),     \* from ..pkg.impl import f
     ImportNode("Import", "", 0, {"tests.test_impl"})}   \* import tests.test_impl

\* every tree over BuildUniverse holding at most MaxImports import statements
PackageTrees ==
    {Tree(".", [f \in BuildUniverse |-> SourceFile({p[2] : p \in {q \in P : q[1] = f}})]) :
        P \in {Q \in SUBSET (BuildUniverse \X BuildStatements) : Cardinality(Q) <= MaxImports}}

\* the tree with a syntax error written into file f: its text keeps the
\* import statements, ast.parse raises on it (analyzer.py:145, 192-193)
BreakFile(tree, f) ==
    [tree EXCEPT !.files[f] = [ok |-> FALSE, imports |-> tree.files[f].imports]]

\* the tree with file f parsing again
RepairFile(tree, f) ==
    [tree EXCEPT !.files[f] = SourceFile(tree.files[f].imports)]

BrokenTrees ==
    {BreakFile(t, f) : t \in PackageTrees, f \in BuildUniverse}

\* a project root that is not there: rglob finds nothing under it
MissingRootTree == [root |-> "gone", exists |-> FALSE, files |-> [f \in {} |-> BrokenFile]]

\* the files a scanned tree may hold: Python files, one whose name and one
\* whose directory carry an exclusion substring, and a file that is no Python
ScanUniverse == {"a.py", "pkg/impl.py", "rebuild.py", "build/gen.py", "README.md"}

\* the project roots as the caller names them: the working directory, a
\* relative and an absolute path, and a path with an exclusion substring in it
Roots == {".", "proj", "/home/proj", "build/proj"}

\* every tree of files without imports over ScanUniverse, under every root
ScanTrees ==
    {Tree(root, [f \in files |-> SourceFile({})]) :
        root \in Roots, files \in SUBSET ScanUniverse}

\* imports that denote no file of the File Index: an excluded file, a file in
\* an excluded directory, a name no file carries, a relative name not there
DroppedStatements ==
    {ImportNode("Import", "", 0, {"rebuild"}),           \* import rebuild
     ImportNode("Import", "", 0, {"build.gen"}),         \* import build.gen
     ImportNode("Import", "", 0, {"pk"}),                \* import pk
     ImportNode("ImportFrom", "missing", 1, {"f"}),      \* from .missing import f
     ImportNode("Import", "", 0, {"a"})}                 \* import a

\* the trees in which tests/test_a.py holds any of these statements
DroppedTrees ==
    {Tree(".", [f \in {"a.py", "pkg/impl.py", "rebuild.py", "build/gen.py",
                       "tests/test_a.py"} |->
                  IF f = "tests/test_a.py" THEN SourceFile(statements)
                  ELSE SourceFile({})]) :
        statements \in SUBSET DroppedStatements}

BuildTrees ==
    PackageTrees \cup BrokenTrees \cup {MissingRootTree} \cup ScanTrees \cup DroppedTrees

\* analyzer.py:51-60, the fields before the build, over the package trees
InitBuild ==
    /\ fs \in BuildTrees
    /\ pc = "new"
    /\ project_root = fs.root
    /\ dependency_graph = EmptyDict
    /\ reverse_graph = EmptyDict
    /\ module_to_tests = EmptyDict
    /\ _python_files = {}
    /\ symbol_imports = EmptyDict
    /\ _installed_packages = {}
    /\ call = NoCall
    /\ walk = NoWalk

SpecBuild == InitBuild /\ [][Construct]_vars

\* ------------------------------------------------------ the Module Resolver
\* The resolver functions of a built session, called one at a time on a File
\* Index drawn from ResolveUniverse.
MaxIndex == 3
MaxLevel == 3

ResolveUniverse ==
    {"os.py", "PyYAML.py", "__init__.py", "impl.py", "pkg.py", "pkg/__init__.py",
     "pkg/impl.py", "pkg/impl/__init__.py", "pkg/sub/mod.py"}

\* the dotted names an absolute import may carry
ModuleNames == {"os", "os.path", "pytest", "PyYAML", "pkg", "pkg.impl", "pkg.sub.mod", "impl"}

\* parts[0] of each of them
TopLevelNames == {Split(m, ".")[1] : m \in ModuleNames}

\* the specifiers a relative import may carry; "" is `from . import x`
RelativeSpecifiers == {"", "impl", "sub.mod"}

\* the import statements a file read by the extractor may hold
ResolveStatements ==
    {ImportNode("Import", "", 0, {m}) : m \in ModuleNames}
    \cup {ImportNode("Import", "", 0, {"os", "pkg"})}
    \cup {ImportNode("ImportFrom", m, 0, {"f"}) : m \in ModuleNames}
    \cup {ImportNode("ImportFrom", m, l, {"f"}) : m \in RelativeSpecifiers, l \in 1..MaxLevel}

\* a session built on a tree of at most MaxIndex files that import nothing
InitResolve ==
    /\ \E index \in {I \in SUBSET ResolveUniverse : Cardinality(I) <= MaxIndex} :
          /\ fs = Tree(".", [f \in index |-> SourceFile({})])
          /\ _python_files = index
          /\ dependency_graph = [f \in index |-> {}]
    /\ pc = "built"
    /\ project_root = "."
    /\ reverse_graph = EmptyDict
    /\ module_to_tests = EmptyDict
    /\ symbol_imports = EmptyDict
    /\ _installed_packages = _get_installed_packages
    /\ call = NoCall
    /\ walk = NoWalk

\* analyzer.py:277-299
IsExternalModule ==
    /\ pc = "built"
    /\ call.op = "none"
    /\ \E module_name \in TopLevelNames :
          call' = [op |-> "_is_external_module", arg |-> <<module_name>>,
                   ret |-> _is_external_module(module_name, _python_files,
                                               _installed_packages)]
    /\ UNCHANGED <<fs, pc, self, walk>>

\* analyzer.py:197-234
ResolveImport ==
    /\ pc = "built"
    /\ call.op = "none"
    /\ \E module_name \in ModuleNames, from_file \in _python_files :
          call' = [op |-> "_resolve_import", arg |-> <<module_name, from_file>>,
                   ret |-> _resolve_import(module_name, from_file, _python_files,
                                           _installed_packages)]
    /\ UNCHANGED <<fs, pc, self, walk>>

\* analyzer.py:236-275
ResolveRelativeImport ==
    /\ pc = "built"
    /\ call.op = "none"
    /\ \E module_name \in RelativeSpecifiers, level \in 1..MaxLevel,
          from_file \in _python_files :
          call' = [op |-> "_resolve_relative_import",
                   arg |-> <<module_name, level, from_file>>,
                   ret |-> _resolve_relative_import(module_name, level, from_file,
                                                    _python_files)]
    /\ UNCHANGED <<fs, pc, self, walk>>

\* analyzer.py:133-195 on a file of the File Index whose text, as open() reads
\* it at the time of the call, holds the one import statement node
ExtractDependenciesAndSymbols ==
    /\ pc = "built"
    /\ call.op = "none"
    /\ \E file_path \in _python_files, node \in ResolveStatements :
          call' = [op |-> "_extract_dependencies_and_symbols",
                   arg |-> <<file_path, node>>,
                   ret |-> _extract_dependencies_and_symbols(
                               file_path,
                               Tree(".", [f \in {file_path} |-> SourceFile({node})]),
                               _python_files, _installed_packages)]
    /\ UNCHANGED <<fs, pc, self, walk>>

\* the caller takes the result and goes on to its next call
ResolveReturn ==
    /\ call.op # "none"
    /\ call' = NoCall
    /\ UNCHANGED <<fs, pc, self, walk>>

NextResolve ==
    \/ IsExternalModule
    \/ ResolveImport
    \/ ResolveRelativeImport
    \/ ExtractDependenciesAndSymbols
    \/ ResolveReturn

SpecResolve == InitResolve /\ [][NextResolve]_vars

\* ------------------------------------------------- changed-symbol extraction
\* git_utils.py: get_changed_symbols reads `git diff -U0` and looks every
\* changed line up in the definitions of the file as it is in the working tree.
MaxLines == 3
MaxDiffLines == 3

\* Python: None
None == ""

\* a FunctionDef, AsyncFunctionDef or ClassDef node (the code treats the three
\* alike); a definition is named after the line its header is on
NameAt == <<"C", "m", "f", "g", "h">>
DefNode(lineno, end_lineno) ==
    [name |-> NameAt[lineno], lineno |-> lineno, end_lineno |-> end_lineno]

\* d lies inside e
Inside(d, e) == e.lineno < d.lineno /\ d.end_lineno <= e.end_lineno

\* the sets of definitions a file of MaxLines lines may hold: any two of them
\* are nested or apart
DefinitionSets ==
    {D \in SUBSET {DefNode(a, b) : a \in 1..MaxLines, b \in 1..MaxLines} :
        /\ \A d \in D : d.lineno <= d.end_lineno
        /\ \A d, e \in D :
              d # e => \/ d.end_lineno < e.lineno
                       \/ e.end_lineno < d.lineno
                       \/ Inside(d, e)
                       \/ Inside(e, d)}

\* the working tree: calc.py with its definitions, parsing or not, or no
\* calc.py at all; README.md is there and is no Python file
WorkingTree(files) == [root |-> ".", exists |-> TRUE, files |-> files]
WorkingTrees ==
    {WorkingTree([f \in {"calc.py"} |-> [ok |-> TRUE, imports |-> {}, defs |-> D]]) :
        D \in DefinitionSets}
    \cup {WorkingTree([f \in {"calc.py"} |->
                         [ok |-> FALSE, imports |-> {}, defs |-> {DefNode(1, MaxLines)}]]),
          WorkingTree([f \in {} |-> BrokenFile])}

\* the lines of the diff that the loop acts on: `+++ b/<path>` and
\* `@@ -a,b +new_start[,new_count] @@`; count is <<>> where the diff omits it
FileLine(path) == [kind |-> "+++", path |-> path]
HunkLine(new_start, count) == [kind |-> "@@", new_start |-> new_start, count |-> count]
DiffLines ==
    {FileLine("calc.py"), FileLine("README.md")}
    \cup {HunkLine(l, <<>>) : l \in 1..MaxLines}
    \cup {HunkLine(1, <<0>>), HunkLine(1, <<MaxLines>>)}

\* the outcomes of the last git diff that was run: a failure, or the diff of
\* at most MaxDiffLines such lines, the first one a file line
GitResults ==
    {[returncode |-> 1, stdout |-> <<>>]}
    \cup {[returncode |-> 0, stdout |-> d] :
            d \in {e \in Lists(DiffLines, MaxDiffLines) : Len(e) > 0 => e[1].kind = "+++"}}

\* the number of definitions around d
Depth(D, d) == Cardinality({e \in D : Inside(d, e)})

\* git_utils.py:131, ast.walk(tree) kept to the definitions: breadth first, so
\* by depth, and by line within a depth
RECURSIVE ast_walk(_, _)
ast_walk(D, todo) ==
    IF todo = {} THEN <<>>
    ELSE LET node == CHOOSE d \in todo : \A e \in todo :
                        \/ Depth(D, d) < Depth(D, e)
                        \/ Depth(D, d) = Depth(D, e) /\ d.lineno <= e.lineno
         IN  <<node>> \o ast_walk(D, todo \ {node})

\* git_utils.py:131-136, the first node of the walk around line_number
FirstAround(nodes, line_number) ==
    LET hits == {i \in 1..Len(nodes) :
                    nodes[i].lineno <= line_number /\ line_number <= nodes[i].end_lineno}
    IN  IF hits = {} THEN None ELSE nodes[Min(hits)].name

\* git_utils.py:116-142
_get_symbol_at_line(tree, file_path, line_number) ==
    IF ~ tree.files[file_path].ok THEN None
    ELSE FirstAround(ast_walk(tree.files[file_path].defs, tree.files[file_path].defs),
                     line_number)

\* git_utils.py:206-209, for line_num in range(new_start, new_start + new_count)
RECURSIVE LinesLoop(_, _, _, _, _)
LinesLoop(symbols, tree, file_path, line_num, stop) ==
    IF line_num >= stop THEN symbols
    ELSE LET symbol == _get_symbol_at_line(tree, file_path, line_num)
         IN  LinesLoop(IF symbol # None THEN symbols \cup {symbol} ELSE symbols,
                       tree, file_path, line_num + 1, stop)

\* git_utils.py:189-209, the body of the loop for one line of the diff;
\* st is [changed_symbols, current_file]
DiffLine(st, line, tree) ==
    IF line.kind = "+++"
    THEN IF EndsWith(line.path, ".py")
         THEN [changed_symbols |->
                  IF line.path \in DOMAIN st.changed_symbols THEN st.changed_symbols
                  ELSE DictSet(st.changed_symbols, line.path, {}),
               current_file |-> line.path]
         ELSE st
    ELSE IF st.current_file # None
    THEN LET new_count == IF Len(line.count) = 0 THEN 1 ELSE line.count[1]
         IN  IF st.current_file \in DOMAIN tree.files
             THEN [st EXCEPT !.changed_symbols[st.current_file] =
                      LinesLoop(@, tree, st.current_file, line.new_start,
                                line.new_start + new_count)]
             ELSE st
    ELSE st

\* git_utils.py:186-209, for line in result.stdout.split('\n')
RECURSIVE DiffLoop(_, _, _, _)
DiffLoop(st, stdout, i, tree) ==
    IF i > Len(stdout) THEN st
    ELSE DiffLoop(DiffLine(st, stdout[i], tree), stdout, i + 1, tree)

\* git_utils.py:145-213; result is what the last subprocess.run returned
get_changed_symbols(result, tree) ==
    IF result.returncode # 0 THEN EmptyDict
    ELSE LET changed_symbols ==
                 DiffLoop([changed_symbols |-> EmptyDict, current_file |-> None],
                          result.stdout, 1, tree).changed_symbols
         IN  [f \in {g \in DOMAIN changed_symbols : changed_symbols[g] # {}} |->
                 changed_symbols[f]]

\* no session is involved: the working tree and the idle caller
InitSymbols ==
    /\ fs \in WorkingTrees
    /\ pc = "new"
    /\ project_root = fs.root
    /\ dependency_graph = EmptyDict
    /\ reverse_graph = EmptyDict
    /\ module_to_tests = EmptyDict
    /\ _python_files = {}
    /\ symbol_imports = EmptyDict
    /\ _installed_packages = {}
    /\ call = NoCall
    /\ walk = NoWalk

\* git_utils.py:145-213
GetChangedSymbols ==
    /\ call.op = "none"
    /\ \E result \in GitResults :
          call' = [op |-> "get_changed_symbols", arg |-> <<result>>,
                   ret |-> get_changed_symbols(result, fs)]
    /\ UNCHANGED <<fs, pc, self, walk>>

SpecSymbols == InitSymbols /\ [][GetChangedSymbols]_vars

\* ================================================================== claims
\* ------------------------------------------------ definitions the claims use
\* the elements of a list
Range(seq) == {seq[i] : i \in DOMAIN seq}

\* a list holding the elements of S, each once
RECURSIVE SetToSeq(_)
SetToSeq(S) ==
    IF S = {} THEN <<>>
    ELSE LET x == CHOOSE y \in S : TRUE IN <<x>> \o SetToSeq(S \ {x})

\* the nodes reachable from R by zero or more edges of graph, as a fixpoint
RECURSIVE ReachableFrom(_, _)
ReachableFrom(graph, R) ==
    LET more == R \cup UNION {Get(graph, n) : n \in R}
    IN  IF more = R THEN R ELSE ReachableFrom(graph, more)

\* the nodes reachable from start by one or more edges of graph
ReachablePlus(graph, start) == ReachableFrom(graph, Get(graph, start))

\* every node a graph names
NodesOf(graph) == (DOMAIN graph) \cup UNION {graph[n] : n \in DOMAIN graph}

\* n lies on a cycle of graph: a path of edges leads from n back to n
OnCycle(graph, n) ==
    \E k \in 1..Cardinality(NodesOf(graph)) :
        \E path \in [1..k -> NodesOf(graph)] :
            /\ path[1] \in Get(graph, n)
            /\ \A i \in 1..(k - 1) : path[i + 1] \in Get(graph, path[i])
            /\ path[k] = n

\* every file a claim may ask about: the tree's files and two it does not hold
AllFiles == (DOMAIN fs.files) \cup {"test_gone.py", Stranger}

\* C1: after the build, b is in dependency_graph[a] if and only if a is in
\* reverse_graph[b], for all files a and b.
GraphSymmetry ==
    pc = "built" =>
        \A a, b \in AllFiles :
            b \in Get(dependency_graph, a) <=> a \in Get(reverse_graph, b)

\* C1 witness: a built session with an edge b.py -> a.py in both graphs
GraphSymmetryWitness ==
    /\ pc = "built"
    /\ "a.py" \in Get(dependency_graph, "b.py")
    /\ "b.py" \in Get(reverse_graph, "a.py")
    /\ "b.py" \notin Get(reverse_graph, "b.py")

\* C2: on every graph and for every start node both closure functions return
\* exactly the nodes reachable from start by one or more edges, and start is
\* in the result if and only if it lies on a cycle.  Checked on the functions
\* as the queries call them (in every session) and on every order in which
\* the for loops may take the elements of the sets (when a walk is done).
ClosureExact ==
    /\ walk.pc = "idle" =>
          \A start \in ClosureNodes \cup {Stranger} :
              /\ _get_all_dependencies(dependency_graph, start, {}).ret
                    = ReachablePlus(dependency_graph, start)
              /\ _get_all_dependents(reverse_graph, start, {}).ret
                    = ReachablePlus(reverse_graph, start)
    /\ walk.pc = "done" =>
          /\ walk.ret = ReachablePlus(WalkGraph, walk.start)
          /\ walk.start \in walk.ret <=> OnCycle(WalkGraph, walk.start)

\* C2 witness: a finished walk that returns its start node, reached through a
\* cycle of more than one edge, and another node
ClosureExactWitness ==
    /\ walk.pc = "done"
    /\ walk.start \in walk.ret
    /\ walk.start \notin Get(WalkGraph, walk.start)
    /\ Cardinality(walk.ret) >= 3

\* C3: a closure call terminates on every graph, cyclic ones and self-imports
\* included; no file passes the visited check twice; and where two files
\* import each other, the closure of either holds both.
ClosureTerminates ==
    /\ <>(walk.pc = "done")
    /\ [](walk.pc # "idle" =>
            \A n \in DOMAIN walk.expanded : walk.expanded[n] <= 1)
    /\ [](walk.pc = "done" =>
            \A n \in ClosureNodes :
                (n \in Get(WalkGraph, walk.start) /\ walk.start \in Get(WalkGraph, n))
                    => {n, walk.start} \subseteq walk.ret)

\* C3 witness: _get_all_dependents("a.py") has returned a.py and b.py where
\* a.py and b.py import each other
ClosureTerminatesWitness ==
    /\ walk.pc = "done"
    /\ walk.fn = "_get_all_dependents"
    /\ walk.start = "a.py"
    /\ "b.py" \in Get(reverse_graph, "a.py")
    /\ "a.py" \in Get(reverse_graph, "b.py")
    /\ {"a.py", "b.py"} \subseteq walk.ret

\* the tests the spec's steps (a), (b) and (c) select for one changed file
SelectedFor(c) ==
    (IF _is_test_file(c) THEN {c} ELSE {})
    \cup {t \in ReachablePlus(reverse_graph, c) : _is_test_file(t)}
    \cup Get(module_to_tests, c)

\* C4: get_affected_tests(S) is the union over the changed files c of {c} if c
\* is a test, the tests of closure(reverse, c) and ModuleToTests[c]; and it
\* returns the same set when the ModuleToTests index is left out.
AffectedTestsIsUnion ==
    call.op = "get_affected_tests" =>
        /\ call.ret = UNION {SelectedFor(c) : c \in Range(call.arg)}
        /\ call.ret = get_affected_tests(call.arg, reverse_graph, EmptyDict)

\* C4 witness: a call whose changed files have an entry in module_to_tests and
\* include a test file
AffectedTestsIsUnionWitness ==
    /\ call.op = "get_affected_tests"
    /\ \E c \in Range(call.arg) : Get(module_to_tests, c) # {}
    /\ \E c \in Range(call.arg) : _is_test_file(c)
    /\ Cardinality(call.ret) >= 2

\* the tests among the files the code's reverse closure of f holds
TestDependents(f) ==
    {t \in _get_all_dependents(reverse_graph, f, {}).ret : _is_test_file(t)}

\* C5, as claimed: for every file f, test or not, module_to_tests[f] (empty if
\* absent) is the set of tests in closure(reverse, f).
DualPathAgreementAllFiles ==
    pc = "built" => \A f \in AllFiles : Get(module_to_tests, f) = TestDependents(f)

\* C5, amended: for every file f that is not classified as a test,
\* module_to_tests[f] (empty if absent) is the set of tests in closure(reverse, f).
DualPathAgreement ==
    pc = "built" =>
        \A f \in AllFiles :
            ~ _is_test_file(f) => Get(module_to_tests, f) = TestDependents(f)

\* C5 witness: test_b.py is in module_to_tests["a.py"] and reaches a.py only
\* through another file
DualPathAgreementWitness ==
    /\ pc = "built"
    /\ "test_b.py" \in Get(module_to_tests, "a.py")
    /\ "a.py" \notin Get(dependency_graph, "test_b.py")
    /\ "test_b.py" \in TestDependents("a.py")

\* SymbolImportTable[T][M] is present and holds the wildcard or a name of X
EntryMatches(T, M, X) ==
    /\ T \in DOMAIN symbol_imports
    /\ M \in DOMAIN symbol_imports[T]
    /\ \/ "*" \in symbol_imports[T][M]
       \/ symbol_imports[T][M] \cap X # {}

\* the changed_symbols map {"calc.py": names}
CalcChanged(names) == [f \in {"calc.py"} |-> names]

\* C6: get_affected_tests_by_symbols returns exactly the test files T of the
\* File Index for which some changed file's table entry is present and holds
\* the wildcard or one of the changed names; a test importing {add, subtract}
\* from calc.py is not selected for {multiply} and is selected for {add}.
SymbolQueryExact ==
    call.op = "get_affected_tests_by_symbols" =>
        /\ call.ret = {T \in _python_files :
                          /\ _is_test_file(T)
                          /\ \E M \in DOMAIN call.arg : EntryMatches(T, M, call.arg[M])}
        /\ (fs = CalcTree /\ call.arg = CalcChanged({"multiply"})) => call.ret = {}
        /\ (fs = CalcTree /\ call.arg = CalcChanged({"add"})) => call.ret = {"test_x.py"}

\* C6 witness: the calc.py example, queried for {add}
SymbolQueryExactWitness ==
    /\ fs = CalcTree
    /\ call.op = "get_affected_tests_by_symbols"
    /\ call.arg = CalcChanged({"add"})
    /\ call.ret = {"test_x.py"}

\* file T holds `import M` or `from M import *`, M a file of the project
ImportsWhole(T, M) ==
    /\ T \in DOMAIN fs.files
    /\ fs.files[T].ok
    /\ \E node \in fs.files[T].imports :
          /\ node.type = "Import" \/ "*" \in node.names
          /\ M \in NodeDeps(node, T, _python_files, _installed_packages)

\* C7: a test file T whose table entry for M holds the wildcard (T does
\* `import M` or `from M import *`) is returned for every non-empty set of
\* changed names of M.
WildcardDominance ==
    call.op = "get_affected_tests_by_symbols" =>
        \A T \in _python_files, M \in DOMAIN call.arg :
            (/\ _is_test_file(T)
             /\ call.arg[M] # {}
             /\ \/ EntryMatches(T, M, {})
                \/ ImportsWhole(T, M))
                => T \in call.ret

\* C7 witness: test_b.py does `import a` and is returned for a name of a.py
\* that no file imports
WildcardDominanceWitness ==
    /\ call.op = "get_affected_tests_by_symbols"
    /\ "a.py" \in DOMAIN call.arg
    /\ call.arg["a.py"] = {"multiply"}
    /\ DOMAIN call.arg = {"a.py"}
    /\ ImportsWhole("test_b.py", "a.py")
    /\ EntryMatches("test_b.py", "a.py", {})
    /\ "test_b.py" \in call.ret

\* C8: every test the symbol-level query returns is returned by the file-level
\* query for the same changed files, and has a forward edge to one of them; a
\* test that reaches a changed file only through other files is not returned.
SymbolQueryRefinesFileQuery ==
    call.op = "get_affected_tests_by_symbols" =>
        /\ call.ret \subseteq get_affected_tests(SetToSeq(DOMAIN call.arg),
                                                 reverse_graph, module_to_tests)
        /\ \A T \in call.ret :
              \E M \in DOMAIN call.arg : M \in Get(dependency_graph, T)

\* C8 witness: the symbol-level query returns test_a.py, which imports a.py,
\* and not test_b.py, which the file-level query returns and which reaches
\* a.py only through test_a.py
SymbolQueryRefinesFileQueryWitness ==
    /\ call.op = "get_affected_tests_by_symbols"
    /\ DOMAIN call.arg = {"a.py"}
    /\ call.ret = {"test_a.py"}
    /\ "test_b.py" \in get_affected_tests(<<"a.py">>, reverse_graph, module_to_tests)
    /\ "a.py" \notin Get(dependency_graph, "test_b.py")

\* C9: get_affected_tests(S1) is a subset of get_affected_tests(S1 \cup S2).
AffectedTestsMonotone ==
    call.op = "get_affected_tests" =>
        \A S1 \in SUBSET Range(call.arg) :
            get_affected_tests(SetToSeq(S1), reverse_graph, module_to_tests)
                \subseteq call.ret

\* C9 witness: a call on two files that returns more than the non-empty set
\* returned for one of them
AffectedTestsMonotoneWitness ==
    /\ call.op = "get_affected_tests"
    /\ \E c \in Range(call.arg) :
          LET one == get_affected_tests(<<c>>, reverse_graph, module_to_tests)
          IN  one # {} /\ one # call.ret /\ one \subseteq call.ret

\* the files each indexed file imports, resolved from the tree's sources
ImportGraph ==
    [f \in _python_files |->
        _extract_dependencies_and_symbols(f, fs, _python_files, _installed_packages).dependencies]

\* C10: a test file that imports a changed file, directly or through a chain
\* of project files importing one another, is in get_affected_tests of the
\* changed file; for a.py, b.py (`from a import f`) and test_b.py
\* (`from b import f`), get_affected_tests(["a.py"]) is {"test_b.py"}.
TransitiveSelection ==
    call.op = "get_affected_tests" =>
        /\ \A c \in Range(call.arg), t \in _python_files :
              (_is_test_file(t) /\ c \in ReachablePlus(ImportGraph, t)) => t \in call.ret
        /\ (fs = ChainTree /\ call.arg = <<"a.py">>) => call.ret = {"test_b.py"}

\* C10 witness: the a.py, b.py, test_b.py example
TransitiveSelectionWitness ==
    /\ fs = ChainTree
    /\ call.op = "get_affected_tests"
    /\ call.arg = <<"a.py">>
    /\ call.ret = {"test_b.py"}
    /\ "a.py" \notin Get(dependency_graph, "test_b.py")

\* the graphs of a tree built in one fixed order of its files
BuildOf(tree) ==
    LET files == _scan_project(tree)
    IN  _build_dependency_graph(
            [dependency_graph |-> EmptyDict, symbol_imports |-> EmptyDict,
             reverse_graph |-> EmptyDict],
            SetToSeq(files), tree, files, _get_installed_packages)

\* C12: a file that does not parse never aborts the build: the session is
\* built, the file is in the File Index and has a forward-graph entry holding
\* the empty set and no symbol entries, and every other file has the forward
\* edges, the symbol entries and the dependents it has when the file parses,
\* less the edges the file itself would have added.
ParseFailureIsolated ==
    pc = "built" =>
        \A f \in DOMAIN fs.files :
            ~ fs.files[f].ok =>
                LET repaired == BuildOf(RepairFile(fs, f))
                IN  /\ f \in _python_files
                    /\ f \in DOMAIN dependency_graph
                    /\ dependency_graph[f] = {}
                    /\ f \notin DOMAIN symbol_imports
                    /\ \A g \in _python_files \ {f} :
                          /\ g \in DOMAIN dependency_graph
                          /\ dependency_graph[g] = repaired.dependency_graph[g]
                          /\ (g \in DOMAIN symbol_imports
                                 <=> g \in DOMAIN repaired.symbol_imports)
                          /\ (g \in DOMAIN symbol_imports
                                 => symbol_imports[g] = repaired.symbol_imports[g])
                    /\ \A x \in _python_files :
                          Get(reverse_graph, x) = Get(repaired.reverse_graph, x) \ {f}

\* C12 witness: pkg/impl.py does not parse, its text imports the test file,
\* and the test file's edge to pkg/impl.py is built all the same
ParseFailureIsolatedWitness ==
    /\ pc = "built"
    /\ "pkg/impl.py" \in _python_files
    /\ ~ fs.files["pkg/impl.py"].ok
    /\ "tests/test_impl.py"
           \in BuildOf(RepairFile(fs, "pkg/impl.py")).dependency_graph["pkg/impl.py"]
    /\ dependency_graph["pkg/impl.py"] = {}
    /\ "pkg/impl.py" \in dependency_graph["tests/test_impl.py"]
    /\ "tests/test_impl.py" \in Get(reverse_graph, "pkg/impl.py")

\* C13: building on a project root that is missing fails: no session, not
\* even an empty one, comes out of it.
MissingRootFails ==
    ~ fs.exists => pc # "built"

\* C15: the forward and the reverse graph do not depend on the order in which
\* the files are processed: whatever order the build took, both graphs equal
\* those of the build in one fixed order.
BuildDeterministic ==
    pc = "built" =>
        /\ dependency_graph = BuildOf(fs).dependency_graph
        /\ reverse_graph = BuildOf(fs).reverse_graph

\* C15 witness: a built session in which two files import pkg/impl.py, so
\* that the order of the two decides which one is added to its dependents last
BuildDeterministicWitness ==
    /\ pc = "built"
    /\ Get(reverse_graph, "pkg/impl.py") = {"os.py", "tests/test_impl.py"}
    /\ "pkg/impl.py" \in Get(dependency_graph, "os.py")
    /\ "pkg/impl.py" \in Get(dependency_graph, "tests/test_impl.py")

\* C14: the queries only read. From the end of the build on, no step changes
\* the File Index, the forward graph, the reverse graph, module_to_tests or
\* symbol_imports, their sets of keys included.
QueriesOnlyRead ==
    [][pc = "built" =>
          UNCHANGED <<_python_files, dependency_graph, reverse_graph, module_to_tests,
                      symbol_imports>>]_vars

\* C19: module_to_tests is the inverted forward closure of the tests, kept to
\* targets that are not tests: t is in module_to_tests[m] if and only if t is
\* a test file of the File Index, m is not a test file, and m is reachable
\* from t by one or more edges of the forward graph.
ModuleToTestsExact ==
    pc = "built" =>
        \A m, t \in AllFiles :
            t \in Get(module_to_tests, m)
                <=> /\ t \in _python_files
                    /\ _is_test_file(t)
                    /\ ~ _is_test_file(m)
                    /\ m \in ReachablePlus(dependency_graph, t)

\* C19 witness: test_b.py is mapped to a.py, which it reaches only through
\* b.py, and imports a test file, which gets no entry
ModuleToTestsExactWitness ==
    /\ pc = "built"
    /\ "test_b.py" \in Get(module_to_tests, "a.py")
    /\ "a.py" \notin Get(dependency_graph, "test_b.py")
    /\ \E t \in _python_files :
          /\ _is_test_file(t)
          /\ \E d \in Get(dependency_graph, t) : _is_test_file(d) /\ d \notin DOMAIN module_to_tests

\* the top-level name of a dotted name is a stdlib module, or is an installed
\* package once lower-cased
ExternalByName(name) ==
    LET top == Split(name, ".")[1]
    IN  top \in stdlib_module_names \/ Lower(top) \in _installed_packages

\* C11: an import whose top-level name is a stdlib module or an installed
\* package (matched in lower case) resolves to the empty set, and a file whose
\* absolute import names only such modules gets no dependency and no symbol
\* entry from it, whatever files the File Index holds.
ExternalResolvesToNothing ==
    /\ (call.op = "_resolve_import" /\ ExternalByName(call.arg[1])) => call.ret = {}
    /\ (/\ call.op = "_extract_dependencies_and_symbols"
        /\ call.arg[2].level = 0
        /\ \A name \in (IF call.arg[2].type = "Import" THEN call.arg[2].names
                        ELSE {call.arg[2].module}) : ExternalByName(name))
          => /\ call.ret.dependencies = {}
             /\ DOMAIN call.ret.symbol_imports = {}

\* C11 witness: `import PyYAML` extracted from os.py while the File Index
\* holds PyYAML.py: the statement adds nothing
ExternalResolvesToNothingWitness ==
    /\ call.op = "_extract_dependencies_and_symbols"
    /\ call.arg[1] = "os.py"
    /\ call.arg[2] = ImportNode("Import", "", 0, {"PyYAML"})
    /\ "PyYAML.py" \in _python_files
    /\ call.ret.dependencies = {}
    /\ DOMAIN call.ret.symbol_imports = {}

\* the path of the first i components of a dotted name
RECURSIVE PrefixPath(_, _)
PrefixPath(parts, i) ==
    IF i = 1 THEN parts[1] ELSE PrefixPath(parts, i - 1) \o "/" \o parts[i]

\* the candidates of an absolute import: for every prefix the module file and
\* the package index, and for every proper prefix the next component's file
Candidates(parts) ==
    UNION {{PrefixPath(parts, i) \o ".py", PrefixPath(parts, i) \o "/__init__.py"}
           \cup (IF i < Len(parts) THEN {PrefixPath(parts, i + 1) \o ".py"} ELSE {}) :
           i \in 1..Len(parts)}

\* C16: the absolute resolution of a dotted name that is not external returns
\* exactly the candidates that are in the File Index: every one of them that
\* exists, and nothing else.
AbsoluteResolutionExact ==
    (/\ call.op = "_resolve_import"
     /\ ~ _is_external_module(Split(call.arg[1], ".")[1], _python_files, _installed_packages))
        => call.ret = Candidates(Split(call.arg[1], ".")) \cap _python_files

\* C16 witness: pkg.impl resolved while pkg.py, pkg/__init__.py and
\* pkg/impl.py all exist: module file, package index and submodule are kept
AbsoluteResolutionExactWitness ==
    /\ call.op = "_resolve_import"
    /\ call.arg[1] = "pkg.impl"
    /\ call.ret = {"pkg.py", "pkg/__init__.py", "pkg/impl.py"}

\* the candidates of a relative import of level N in file F: the directory of
\* F less N - 1 components (the root has none left to drop), then the
\* specifier's components, as a module file and as a package index
RelativeCandidates(module_name, level, from_file) ==
    LET parts == Split(from_file, "/")
        kept == IF Len(parts) > level THEN Len(parts) - level ELSE 0
        target == SubSeq(parts, 1, kept)
        named == Join(target \o Split(module_name, "."), "/")
    IN  IF module_name # ""
        THEN {named \o ".py", named \o "/__init__.py"}
        ELSE {Join(target \o <<"__init__.py">>, "/")}

\* C17: a relative import of level N in file F returns exactly those of its
\* candidates under the directory N - 1 levels above F's own that are in the
\* File Index, both when the resolver is called and when the extractor meets
\* an import statement with dots.
RelativeResolutionExact ==
    /\ call.op = "_resolve_relative_import"
          => call.ret = RelativeCandidates(call.arg[1], call.arg[2], call.arg[3])
                            \cap _python_files
    /\ (call.op = "_extract_dependencies_and_symbols" /\ call.arg[2].level > 0)
          => call.ret.dependencies
                 = RelativeCandidates(call.arg[2].module, call.arg[2].level, call.arg[1])
                       \cap _python_files

\* C17 witness: `from ..impl import f` in pkg/sub/mod.py finds pkg/impl.py and
\* pkg/impl/__init__.py
RelativeResolutionExactWitness ==
    /\ call.op = "_extract_dependencies_and_symbols"
    /\ call.arg[1] = "pkg/sub/mod.py"
    /\ call.arg[2] = ImportNode("ImportFrom", "impl", 2, {"f"})
    /\ call.ret.dependencies = {"pkg/impl.py", "pkg/impl/__init__.py"}

\* C18: a top-level name that some file of the File Index begins with is not
\* classified external, also when it is the name of a stdlib module or of an
\* installed package.
ProjectFileIsNotExternal ==
    (/\ call.op = "_is_external_module"
     /\ \E f \in _python_files : StartsWith(f, call.arg[1]))
        => call.ret = FALSE

\* the changed lines the extraction looks up in file F: those of the hunks
\* that follow a file line of F before the next file line of a Python file
RECURSIVE LookedUp(_, _, _, _)
LookedUp(stdout, i, current_file, F) ==
    IF i > Len(stdout) THEN {}
    ELSE IF stdout[i].kind = "+++"
    THEN LookedUp(stdout, i + 1,
                  IF EndsWith(stdout[i].path, ".py") THEN stdout[i].path ELSE current_file, F)
    ELSE (IF current_file = F
          THEN LET n == IF Len(stdout[i].count) = 0 THEN 1 ELSE stdout[i].count[1]
               IN  stdout[i].new_start..(stdout[i].new_start + n - 1)
          ELSE {})
         \cup LookedUp(stdout, i + 1, current_file, F)

\* the definitions of D around a line, and the innermost of them
Around(D, line) == {d \in D : d.lineno <= line /\ line <= d.end_lineno}
Innermost(D, line) == CHOOSE d \in Around(D, line) : \A e \in Around(D, line) : e.lineno <= d.lineno

\* the names the claim gives file F: the innermost definition around each
\* changed line that lies in one
InnermostSymbols(stdout, F) ==
    IF F \in DOMAIN fs.files /\ fs.files[F].ok
    THEN {Innermost(fs.files[F].defs, l).name :
            l \in {k \in LookedUp(stdout, 1, None, F) : Around(fs.files[F].defs, k) # {}}}
    ELSE {}

\* C20: the extraction maps every changed line to the innermost definition
\* around it (the method, not its class), a line in no definition adds no
\* name, and a file without a name is not in the returned map: the map holds
\* exactly the files with such a name, each with exactly these names.
ChangedSymbolsInnermost ==
    (call.op = "get_changed_symbols" /\ call.arg[1].returncode = 0) =>
        LET stdout == call.arg[1].stdout
            named == {F \in {"calc.py", "README.md"} : InnermostSymbols(stdout, F) # {}}
        IN  /\ DOMAIN call.ret = named
            /\ \A F \in named : call.ret[F] = InnermostSymbols(stdout, F)

\* C21: the File Index is exactly the set of root-relative paths of the .py
\* files under the root that contain none of the exclusion substrings,
\* whatever the root directory is called and wherever it lies.
FileIndexByFileId ==
    (pc = "built" /\ fs.exists) =>
        _python_files
            = {rel \in DOMAIN fs.files :
                  /\ EndsWith(rel, ".py")
                  /\ \A skip \in exclusion_patterns : ~ Contains(rel, skip)}

\* the import statements of file F that were parsed and resolve to file D
StatementsTo(F, D) ==
    IF F \in DOMAIN fs.files /\ fs.files[F].ok
    THEN {n \in fs.files[F].imports :
            D \in NodeDeps(n, F, _python_files, _installed_packages)}
    ELSE {}

\* the names these statements import, the wildcard standing for `import X`
NamesFrom(F, D) ==
    UNION {IF n.type = "Import" THEN {"*"} ELSE n.names : n \in StatementsTo(F, D)}

\* the entry symbol_imports holds for the pair, {} where it holds none
SymbolEntry(F, D) ==
    IF F \in DOMAIN symbol_imports /\ D \in DOMAIN symbol_imports[F]
    THEN symbol_imports[F][D] ELSE {}

\* C22: symbol_imports is consistent with the forward graph: symbol_imports[F]
\* has an entry for D if and only if D is in dependency_graph[F], and the
\* entry is the non-empty union of the names that F's import statements
\* resolving to D import, with the wildcard for `import X`.
SymbolTableConsistent ==
    pc = "built" =>
        \A F, D \in AllFiles :
            /\ (F \in DOMAIN symbol_imports /\ D \in DOMAIN symbol_imports[F])
                   <=> D \in Get(dependency_graph, F)
            /\ D \in Get(dependency_graph, F)
                   => /\ SymbolEntry(F, D) # {}
                      /\ SymbolEntry(F, D) = NamesFrom(F, D)

\* C22 witness: a file that does both `import a` and `from a import f` has
\* the two names under a.py, also after a symbol query went over the table
SymbolTableConsistentWitness ==
    /\ pc = "built"
    /\ call.op = "get_affected_tests_by_symbols"
    /\ \E F \in _python_files :
          /\ SymbolEntry(F, "a.py") = {"*", "f"}
          /\ Get(dependency_graph, F) = {"a.py"}

\* every key and every member of a dict of sets
KeysAndMembers(d) == (DOMAIN d) \cup UNION {d[k] : k \in DOMAIN d}

\* C23: the built graphs are closed over the File Index: every file of the
\* File Index has an entry in the forward graph, every key and every member of
\* the forward graph, the reverse graph and module_to_tests is a file of the
\* File Index: an import that denotes no file of the File Index adds nothing.
GraphsClosedOverIndex ==
    pc = "built" =>
        /\ _python_files \subseteq DOMAIN dependency_graph
        /\ KeysAndMembers(dependency_graph) \subseteq _python_files
        /\ KeysAndMembers(reverse_graph) \subseteq _python_files
        /\ KeysAndMembers(module_to_tests) \subseteq _python_files

\* C23 witness: tests/test_a.py imports the excluded rebuild.py, the name pk
\* that no file carries, a relative module that is not there, and a.py; only
\* a.py is in its entry
GraphsClosedOverIndexWitness ==
    /\ pc = "built"
    /\ "rebuild.py" \in (DOMAIN fs.files) \ _python_files
    /\ "tests/test_a.py" \in _python_files
    /\ {ImportNode("Import", "", 0, {"rebuild"}), ImportNode("Import", "", 0, {"pk"}),
        ImportNode("ImportFrom", "missing", 1, {"f"})}
           \subseteq fs.files["tests/test_a.py"].imports
    /\ dependency_graph["tests/test_a.py"] = {"a.py"}
    /\ reverse_graph = [f \in {"a.py"} |-> {"tests/test_a.py"}]

====
